---------------------------- MODULE Spec2Model ----------------------------
(* Model of timeseries/pergrams.py: the periodogram estimators, the        *)
(* frequency grids they derive, their normalisation, their effect on the   *)
(* input arrays, and their execution through the defaults_pergram /        *)
(* parallel_pergram / make_parallel decorators.                            *)
(*                                                                         *)
(* Floating point numbers are modelled by exact rationals <<p, q>> in      *)
(* lowest terms with q > 0.  Statistic values computed by the compiled     *)
(* kernels are modelled symbolically: a value records the frequency it     *)
(* was evaluated at, its class (nan, ninf, neg, zero, pos, inf) and the    *)
(* scalings applied to it since.                                           *)
EXTENDS Integers, Sequences, FiniteSets

VARIABLES
    args,     \* the arguments of the call (scalars and keywords)
    mem,      \* the caller's arrays: times, signal, weights, errors
    pc,       \* "start", "resolved", "running", "done"
    parts,    \* the sub-grids handed to the workers
    out,      \* the private output of each worker
    result,   \* what the call returns or raises
    loop      \* the frequency loop of pdm_py: its index and the bins of its last pass

vars == <<args, mem, pc, parts, out, result, loop>>

-----------------------------------------------------------------------------
(* Exact rational arithmetic.                                              *)

Abs(x) == IF x < 0 THEN -x ELSE x

RECURSIVE GCD(_, _)
GCD(a, b) == IF b = 0 THEN a ELSE GCD(b, a % b)

\* p/q in lowest terms with a positive denominator (q # 0)
R(p, q) ==
    LET g == GCD(Abs(p), Abs(q))
        s == IF q < 0 THEN -1 ELSE 1
    IN  <<(s * p) \div g, (s * q) \div g>>

RInt(n)    == <<n, 1>>
RAdd(a, b) == R(a[1] * b[2] + b[1] * a[2], a[2] * b[2])
RSub(a, b) == R(a[1] * b[2] - b[1] * a[2], a[2] * b[2])
RMul(a, b) == R(a[1] * b[1], a[2] * b[2])
RDiv(a, b) == R(a[1] * b[2], a[2] * b[1])
RLt(a, b)  == a[1] * b[2] < b[1] * a[2]
RLe(a, b)  == a[1] * b[2] <= b[1] * a[2]
RZero      == <<0, 1>>

\* Python's int(x): truncation towards zero
RTrunc(a) == IF a[1] >= 0 THEN a[1] \div a[2] ELSE -((-a[1]) \div a[2])
RFloor(a) == a[1] \div a[2]
RCeil(a)  == -((-a[1]) \div a[2])

Max(a, b) == IF a >= b THEN a ELSE b
Min(a, b) == IF a <= b THEN a ELSE b

RECURSIVE SumSeq(_)
SumSeq(s) == IF s = <<>> THEN 0 ELSE Head(s) + SumSeq(Tail(s))

SeqMax(s) == CHOOSE x \in {s[i] : i \in DOMAIN s} :
                 \A y \in {s[i] : i \in DOMAIN s} : y <= x
SeqMin(s) == CHOOSE x \in {s[i] : i \in DOMAIN s} :
                 \A y \in {s[i] : i \in DOMAIN s} : x <= y

\* the sequence s[1], ..., s[n] mapped through f is written [i \in 1..n |-> ...]
RECURSIVE Concat(_)
Concat(ss) == IF ss = <<>> THEN <<>> ELSE Head(ss) \o Concat(Tail(ss))

-----------------------------------------------------------------------------
(* Bounds of the model and the inputs drawn from them.                     *)

\* the largest whole number of df steps between f0 and fn
MaxSteps == 5

\* the largest time stamp handed to windowfunction
MaxTime == 2

\* the longest time series handed to windowfunction
MaxWinLen == 3

\* the tolerance 0.001 of the sample count is 1 / EpsDen
EpsDen == 1000

Eps == R(1, EpsDen)

\* a number that is no frequency: an argument that is not passed
RNone == <<0, 0>>

Decorated == {"scargle", "deeming", "gls", "clean", "schwarzenberg_czerny",
              "pdm", "pdm_py", "bls", "kepler"}

Undecorated == {"windowfunction", "DFTpower"}

Norms == {"power", "amplitude", "distribution", "density"}

\* classes of a floating point value
Classes == {"nan", "ninf", "neg", "zero", "pos", "inf"}

\* classes a kernel can return for a statistic
KernelClasses == {"nan", "neg", "zero", "pos"}

\* the k of the threads keyword
ThreadCounts == {2, 3, 5}

F0Set == {R(0, 1), R(1, 1), R(3, 2)}

DfSet == {R(1, 2), R(1, 1)}

\* (fn - f0) / df: whole steps, half steps, and steps that fall 0.0005 short
Ratios == {R(1, 2), R(1999, 2000)}
          \cup {RAdd(RInt(s), o) : s \in 1..MaxSteps,
                                   o \in {R(0, 1), R(1, 2), R(1999, 2000)}}

ValidGrids == {[f0 |-> f, df |-> d, fn |-> RAdd(f, RMul(r, d))] :
                   f \in F0Set, d \in DfSet, r \in Ratios}

\* fn <= f0, or df <= 0
InvalidGrids ==
    {[f0 |-> R(1, 1), df |-> d, fn |-> g] :
         d \in DfSet, g \in {R(1, 1), R(0, 1)}}
    \cup {[f0 |-> R(0, 1), df |-> d, fn |-> g] :
         d \in {R(0, 1), R(-1, 1)}, g \in {R(2, 1), R(-2, 1)}}

Grids == ValidGrids \cup InvalidGrids

\* time series: unsorted times and duplicate time stamps included, T > 0
SeriesSet ==
    { [times |-> <<0, 1>>,    signal |-> <<1, 1>>],
      [times |-> <<0, 1>>,    signal |-> <<0, 2>>],
      [times |-> <<2, 0>>,    signal |-> <<1, 3>>],
      [times |-> <<1, 1, 3>>, signal |-> <<2, 2, 2>>],
      [times |-> <<0, 2, 1>>, signal |-> <<0, 1, 5>>] }

Array(d)  == [data |-> d, ops |-> <<>>]
NoArray   == Array(<<>>)
Ones(n)   == [i \in 1..n |-> 1]

-----------------------------------------------------------------------------
(* Floating point values of a statistic.                                   *)

\* A value: nan, the infinities and 0.0 are one value each; a finite non-zero
\* value is known by the frequency its kernel evaluated it at and by the
\* scalings applied to it since.
Val(at, cls, ops) ==
    IF cls \in {"neg", "pos"} THEN [at |-> at, cls |-> cls, ops |-> ops]
    ELSE [at |-> RNone, cls |-> cls, ops |-> <<>>]

\* the statistic a kernel computes at frequency f
KVal(a, f) == Val(f, IF f = a.kat THEN a.kcls ELSE "pos", <<>>)

\* the literals 0. and 1. stored at lines 130 and 581
Literal(c) == Val(RNone, c, <<>>)

\* Python's truth value of a float: only 0.0 is false (nan is true)
Truthy(v) == v.cls # "zero"

\* numpy's sqrt
SqrtCls(c) == CASE c \in {"nan", "ninf", "neg"} -> "nan"
                [] OTHER -> c

\* numpy's x / d for d >= 0
DivCls(c, dzero) ==
    IF ~dzero THEN c
    ELSE CASE c \in {"nan", "zero"} -> "nan"
           [] c \in {"neg", "ninf"} -> "ninf"
           [] OTHER                 -> "inf"

\* numpy's x * d for d >= 0
MulCls(c, dzero) ==
    IF ~dzero THEN c
    ELSE CASE c \in {"nan", "ninf", "inf"} -> "nan"
           [] OTHER                        -> "zero"

Scaled(v, c, op) == Val(v.at, c, Append(v.ops, op))

Finite(v) == v.cls \in {"neg", "zero", "pos"}

\* len, ptp and the zero test of np.var of an array of the caller
Ptp(d) == SeqMax(d) - SeqMin(d)

VarZero(d) ==
    Len(d) * SumSeq([i \in DOMAIN d |-> d[i] * d[i]]) = SumSeq(d) * SumSeq(d)

-----------------------------------------------------------------------------
(* What one call of an estimator body yields.                              *)

\* raised: "" or the exception; kernel: the calls of a compiled kernel;
\* stores: the in-place stores (obj, op) of the body, in program order
Res(raised, freq, stat, kernel, stores) ==
    [raised |-> raised, freq |-> freq, stat |-> stat,
     kernel |-> kernel, stores |-> stores]

Raise(exc, kernel, stores) == Res(exc, <<>>, <<>>, kernel, stores)

Store(obj, op) == [obj |-> obj, op |-> op]

KCall(name, f0, fn, df, nf, startfreqs, endfreqs, nbins) ==
    [name |-> name, f0 |-> f0, fn |-> fn, df |-> df, nf |-> nf,
     startfreqs |-> startfreqs, endfreqs |-> endfreqs, nbins |-> nbins]

\* f0, f0 + df, ..., n values (none when n <= 0)
Grid(f0, df, n) == [i \in 1..n |-> RAdd(f0, RMul(RInt(i - 1), df))]

\* the statistic of a kernel on the frequencies fs
KStat(a, fs) == [i \in DOMAIN fs |-> KVal(a, fs[i])]

\* (fn - f0) / df
StepRatio(a) == RDiv(RSub(a.fn, a.f0), a.df)

\* nf = int((fn-f0)/df+0.001)+1
SampleCount(a) == RTrunc(RAdd(StepRatio(a), Eps)) + 1

\* maxstep = int((fn-f0)/df+1)
MaxStep(a) == RTrunc(RAdd(StepRatio(a), RInt(1)))

\* np.arange(f0, fn+df, df): ceil((fn + df - f0) / df) values, none if negative
Arange(a) ==
    Grid(a.f0, a.df, Max(0, RCeil(RDiv(RSub(RAdd(a.fn, a.df), a.f0), a.df))))

\* np.linspace(start, stop, num): int(num) values, the last one is stop
Linspace(start, stop, num) ==
    LET k == RTrunc(num)
    IN  IF k = 1 THEN <<start>>
        ELSE [i \in 1..k |->
                 RAdd(start, RDiv(RMul(RInt(i - 1), RSub(stop, start)), RInt(k - 1)))]

\* lines 131-137 (and 181-188): the normalisation of s1.  The value is the
\* array s1 is bound to afterwards.
Normalise(s1, norm, varzero, tzero) ==
    CASE norm = "distribution" ->
             [i \in DOMAIN s1 |-> Scaled(s1[i], DivCls(s1[i].cls, varzero), "div_var")]
      [] norm = "amplitude" ->
             [i \in DOMAIN s1 |-> Scaled(s1[i], SqrtCls(s1[i].cls), "amplitude")]
      [] norm = "density" ->
             [i \in DOMAIN s1 |-> Scaled(s1[i], MulCls(s1[i].cls, tzero), "density")]
      [] OTHER -> s1

\* s1 /= np.var(signal) stores into the array s1 is bound to; the other
\* normalisations bind s1 to a new array
NormStores(obj, norm) ==
    IF norm = "distribution" THEN <<Store(obj, "idiv_var")>> ELSE <<>>

\* s1 bound to the caller's signal: the stores of lines 130 and 133 would reach it
ScargleS1IsSignal == "signal"

\* the array the name s1 is bound to after the kernel call of scargle
ScargleS1 == "scargle.s1"

\* line 130: if not s1[0]: s1[0]=0.
ZeroFirst(s1) == IF ~Truthy(s1[1]) THEN <<Literal("zero")>> \o Tail(s1) ELSE s1

ZeroFirstStores(obj, s1) ==
    IF ~Truthy(s1[1]) THEN <<Store(obj, "setitem")>> ELSE <<>>

scargle(a, m) ==
    IF a.df = RZero THEN Raise("ZeroDivisionError", <<>>, <<>>)
    ELSE LET nf == SampleCount(a)
             f1 == Grid(a.f0, a.df, nf)
             k  == KCall(IF a.weights THEN "scar3" ELSE "scar2",
                         a.f0, RNone, a.df, nf, <<>>, <<>>, 0)
             s1 == KStat(a, f1)
             z1 == ZeroFirst(s1)
             st == ZeroFirstStores(ScargleS1, s1) \o NormStores(ScargleS1, a.norm)
         IN  IF nf < 0 THEN Raise("ValueError", <<>>, <<>>)
             ELSE IF a.weights /\ ~a.logger THEN Raise("NameError", <<>>, <<>>)
             ELSE IF nf = 0 THEN Raise("IndexError", <<k>>, <<>>)
             ELSE Res("", f1,
                      Normalise(z1, a.norm, VarZero(m.signal.data),
                                Ptp(m.times.data) = 0),
                      <<k>>, st)

\* the array the name s1 is bound to after the kernel call of deeming
DeemingS1 == "deeming.s1"

deeming(a, m) ==
    IF a.df = RZero THEN Raise("ZeroDivisionError", <<>>, <<>>)
    ELSE LET nf == SampleCount(a)
             f1 == Grid(a.f0, a.df, nf)
             k  == KCall("deeming1", a.f0, RNone, a.df, nf, <<>>, <<>>, 0)
             s1 == [i \in DOMAIN f1 |->
                       Scaled(KVal(a, f1[i]), KVal(a, f1[i]).cls, "div_n")]
         IN  Res("", f1,
                 Normalise(s1, a.norm, VarZero(m.signal.data), Ptp(m.times.data) = 0),
                 <<k>>,
                 <<Store(DeemingS1, "idiv_n")>> \o NormStores(DeemingS1, a.norm))

\* the arrays of zeros a kernel fills in place: they are created in the body
KernelFills(fn, names) == [i \in DOMAIN names |-> Store(fn \o "." \o names[i], "kernel")]

gls(a, m) ==
    IF a.df = RZero THEN Raise("ZeroDivisionError", <<>>, <<>>)
    ELSE LET maxstep == MaxStep(a)
             f1 == Grid(a.f0, a.df, maxstep)
             k  == KCall("gls", a.f0, a.fn, a.df, maxstep, <<>>, <<>>, 0)
         IN  IF maxstep < 0 THEN Raise("ValueError", <<>>, <<>>)
             ELSE Res("", f1, KStat(a, f1), <<k>>, KernelFills("gls", <<"f1", "s1", "p1", "l1">>))

kepler(a, m) ==
    IF a.df = RZero THEN Raise("ZeroDivisionError", <<>>, <<>>)
    ELSE LET maxstep == MaxStep(a)
             f1 == Grid(a.f0, a.df, maxstep)
             k  == KCall("kepler", a.f0, a.fn, a.df, maxstep, <<>>, <<>>, 0)
         IN  IF maxstep < 0 THEN Raise("ValueError", <<>>, <<>>)
             ELSE Res("", f1, KStat(a, f1), <<k>>,
                      KernelFills("kepler", <<"f1", "s1", "p1", "l1", "s2", "k2">>))

\* lines 461-462: freqbins defaults to [f0, fn]
FreqBins(a) == IF a.hasbins THEN a.freqbins ELSE <<a.f0, a.fn>>

\* freqbins[0::2] and freqbins[1::2]
EvenItems(s) == [i \in 1..((Len(s) + 1) \div 2) |-> s[2 * i - 1]]
OddItems(s)  == [i \in 1..(Len(s) \div 2) |-> s[2 * i]]

\* the call of pyclean.main_clean at lines 468-472
CleanCall(a) ==
    KCall("main_clean", RNone, a.fn, RNone, RTrunc(RDiv(a.fn, a.df)),
          EvenItems(FreqBins(a)), OddItems(FreqBins(a)), Len(FreqBins(a)) - 1)

\* the frequencies main_clean scans: nf values from 0 in steps of fn / nf
CleanFreqs(fn, nf) == [i \in 1..nf |-> RDiv(RMul(RInt(i - 1), fn), RInt(nf))]

clean(a, m) ==
    IF a.df = RZero THEN Raise("ZeroDivisionError", <<>>, <<>>)
    ELSE LET k == CleanCall(a)
             f == CleanFreqs(k.fn, k.nf)
         IN  Res("", f, KStat(a, f), <<k>>, <<>>)

schwarzenberg_czerny(a, m) ==
    IF a.df = RZero THEN Raise("ZeroDivisionError", <<>>, <<>>)
    ELSE LET frequencies == Arange(a)
             k == KCall("sfou", a.f0, RNone, a.df, Len(frequencies), <<>>, <<>>, 0)
         IN  Res("", frequencies, KStat(a, frequencies), <<k>>, <<>>)

\* the array the name s1 is bound to after the kernel call of pdm
PdmS1 == "pdm.s1"

\* line 581: if not s1[0]: s1[0] = 1.
OneFirst(s1) == IF ~Truthy(s1[1]) THEN <<Literal("pos")>> \o Tail(s1) ELSE s1

pdm(a, m) ==
    IF a.df = RZero THEN Raise("ZeroDivisionError", <<>>, <<>>)
    ELSE LET nf == SampleCount(a)
             f1 == Grid(a.f0, a.df, nf)
             k  == KCall(IF a.dnone THEN "justel" ELSE "justel2",
                         a.f0, RNone, a.df, nf, <<>>, <<>>, 0)
             s1 == KStat(a, f1)
         IN  IF nf < 0 THEN Raise("ValueError", <<>>, <<>>)
             ELSE IF nf = 0 THEN Raise("IndexError", <<k>>, <<>>)
             ELSE Res("", f1, OneFirst(s1), <<k>>, ZeroFirstStores(PdmS1, s1))

\* the array the name theta is bound to in pdm_py
PdmPyTheta == "pdm_py.theta"

\* lines 631-668: theta[i], as the class of its value at frequency f
ThetaRaw(a, f) == KVal(a, f)

pdm_py(a, m) ==
    IF a.df = RZero THEN Raise("ZeroDivisionError", <<>>, <<>>)
    ELSE LET freq  == Arange(a)
             theta == [i \in DOMAIN freq |->
                          Scaled(ThetaRaw(a, freq[i]),
                                 DivCls(ThetaRaw(a, freq[i]).cls, VarZero(m.signal.data)),
                                 "div_var")]
         IN  Res("", freq, theta, <<>>,
                 <<Store(PdmPyTheta, "iadd"), Store(PdmPyTheta, "idiv"),
                   Store(PdmPyTheta, "idiv_var")>>)

\* np.fmod(x, y): the remainder with the sign of x
RFmod(x, y) == RSub(x, RMul(y, RInt(RTrunc(RDiv(x, y)))))

\* line 634: the phase of time point j at frequency f
Phase(time, f, D, j) ==
    RFmod(RAdd(RMul(RInt(time[j] - time[1]), f),
               RMul(RDiv(D, RInt(2)), RInt(time[j] * time[j]))),
          RInt(1))

\* lines 626-627
BinSize(Nbin) == R(1, Nbin)
CoverShift(Nbin, Ncover) == R(1, Nbin * Ncover)

\* lines 649-650: the boundaries of bin k of cover n
BinLeft(Nbin, Ncover, k, n) ==
    RFmod(RAdd(RMul(RInt(k), BinSize(Nbin)), RMul(RInt(n), CoverShift(Nbin, Ncover))),
          RInt(1))
BinRight(Nbin, Ncover, k, n) ==
    RFmod(RAdd(RMul(RInt(k + 1), BinSize(Nbin)), RMul(RInt(n), CoverShift(Nbin, Ncover))),
          RInt(1))

\* the bin taken as left <= phase < right even when it wraps
InBinNoWrap(left, right, p) == RLe(left, p) /\ RLt(p, right)

\* lines 654-657: the mask of np.compress for one phase
InBin(left, right, p) ==
    IF RLt(left, right) THEN RLe(left, p) /\ RLt(p, right)
    ELSE ~(RLe(right, p) /\ RLt(p, left))

\* lines 642-657: the points selected by bin k of cover n, for all k and n
BinData(phase, Nbin, Ncover) ==
    [k \in 0..(Nbin - 1) |->
        [n \in 0..(Ncover - 1) |->
            {j \in DOMAIN phase :
                InBin(BinLeft(Nbin, Ncover, k, n), BinRight(Nbin, Ncover, k, n),
                      phase[j])}]]

\* lines 638, 661-664: the bins that selected no point
CountEmpty(sel, Nbin, Ncover) ==
    Cardinality({kn \in (0..(Nbin - 1)) \X (0..(Ncover - 1)) :
                    sel[kn[1]][kn[2]] = {}})

\* line 668: the denominator of theta[i]
ThetaDenominator(Ncover, Ntime, Nbin, Nempty) ==
    Ncover * Ntime - (Ncover * Nbin - Nempty)

\* line 741: nf = (fn-f0)/df, from the requested f0
BlsNf(a) == StepRatio(a)

\* the bound taken as 1/T, one cycle in the baseline instead of two
BlsF0OneCycle(f0, T) == IF RLt(f0, R(1, T)) THEN R(1, T) ELSE f0

\* line 742: if f0<2./T: f0=2./T
BlsF0(f0, T) == IF RLt(f0, R(2, T)) THEN R(2, T) ELSE f0

bls(a, m) ==
    IF a.df = RZero THEN Raise("ZeroDivisionError", <<>>, <<>>)
    ELSE LET nf == BlsNf(a)
             f0 == BlsF0(a.f0, Ptp(m.times.data))
             k  == KCall("eebls", f0, RNone, a.df, RTrunc(nf), <<>>, <<>>, 0)
             power == KStat(a, Grid(f0, a.df, RTrunc(nf)))
         IN  IF RTrunc(nf) < 0 THEN Raise("ValueError", <<k>>, <<>>)
             ELSE Res("", Linspace(f0, a.fn, nf), power, <<k>>, <<>>)

\* line 220 reads stopfreq, startfreq and stepfreq, which are no names of
\* the function or the module
DFTpower(a, m) == Raise("NameError", <<>>, <<>>)

-----------------------------------------------------------------------------
(* windowfunction, on frequencies that are multiples of 1/4 and whole      *)
(* times, where cos and sin of 2 pi f t are exact.                         *)

\* cos and sin of m quarter turns
Cos4(m) == CASE m % 4 = 0 -> 1 [] m % 4 = 2 -> -1 [] OTHER -> 0
Sin4(m) == CASE m % 4 = 1 -> 1 [] m % 4 = 3 -> -1 [] OTHER -> 0

\* lines 55-56, for the frequency q / 4
WinKernel(time, q) ==
    LET c == SumSeq([j \in DOMAIN time |-> Cos4(q * time[j])])
        d == SumSeq([j \in DOMAIN time |-> Sin4(q * time[j])])
    IN  c * c + d * d

\* the kernel divided by Ntime instead of Ntime**2
windowfunctionByN(time, freq) ==
    LET Ntime == Len(time)
    IN  [i \in DOMAIN freq |->
            IF Ntime = 0 THEN RNone
            ELSE R(WinKernel(time, freq[i]), Ntime)]

\* lines 50-60; 0/0 is nan
windowfunction(time, freq) ==
    LET Ntime == Len(time)
    IN  [i \in DOMAIN freq |->
            IF Ntime = 0 THEN RNone
            ELSE R(WinKernel(time, freq[i]), Ntime * Ntime)]

-----------------------------------------------------------------------------
(* The decorators: defaults_pergram resolves and checks the grid,          *)
(* parallel_pergram splits it over the workers and joins their outputs.    *)

\* the body of the estimator a.est on the grid (a.f0, a.fn, a.df)
Estimate(a, m) ==
    CASE a.est = "scargle"              -> scargle(a, m)
      [] a.est = "deeming"              -> deeming(a, m)
      [] a.est = "gls"                  -> gls(a, m)
      [] a.est = "clean"                -> clean(a, m)
      [] a.est = "schwarzenberg_czerny" -> schwarzenberg_czerny(a, m)
      [] a.est = "pdm"                  -> pdm(a, m)
      [] a.est = "pdm_py"               -> pdm_py(a, m)
      [] a.est = "bls"                  -> bls(a, m)
      [] a.est = "kepler"               -> kepler(a, m)
      [] OTHER                          -> DFTpower(a, m)

\* the scalings stored into the array named o, in program order
RECURSIVE StoreOps(_, _)
StoreOps(st, o) ==
    IF st = <<>> THEN <<>>
    ELSE (IF Head(st).obj = o THEN <<Head(st).op>> ELSE <<>>) \o StoreOps(Tail(st), o)

\* the caller's arrays after the stores st
ApplyStores(m, st) ==
    [o \in DOMAIN m |-> [data |-> m[o].data, ops |-> m[o].ops \o StoreOps(st, o)]]

\* Frequency Grid Resolver: df <= 0 or fn <= f0 is an input error
GridInvalid(a) == RLe(a.df, RZero) \/ RLe(a.fn, a.f0)

\* the samples of the grid: floor((fn - f0) / df + 0.001) + 1
GridSamples(a) == RFloor(RAdd(StepRatio(a), Eps)) + 1

\* the samples of partition i of k, as equal as possible
PartSize(N, k, i) == (N \div k) + (IF i <= N % k THEN 1 ELSE 0)

\* the samples before partition i
PartStart(N, k, i) == SumSeq([j \in 1..(i - 1) |-> PartSize(N, k, j)])

\* Parallel Dispatch Engine, steps 1 and 2: the sub-grids of the workers.
\* The sub-ranges are contiguous and disjoint: each ends one step before the next
\* begins, and the last ends at fn.
Partition(a) ==
    IF a.threads <= 1 THEN <<[f0 |-> a.f0, fn |-> a.fn]>>
    ELSE LET N == GridSamples(a)
             k == Min(a.threads, N)
         IN  [i \in 1..k |->
                [f0 |-> RAdd(a.f0, RMul(RInt(PartStart(N, a.threads, i)), a.df)),
                 fn |-> IF i = k THEN a.fn
                        ELSE RAdd(a.f0, RMul(RInt(PartStart(N, a.threads, i + 1) - 1),
                                             a.df))]]

Pending == [done |-> FALSE, res |-> Raise("", <<>>, <<>>)]

Outcome(raised, freq, stat, win, kernel, failed, cause) ==
    [raised |-> raised, freq |-> freq, stat |-> stat, win |-> win,
     kernel |-> kernel, failed |-> failed, cause |-> cause]

NoOutcome == Outcome("", <<>>, <<>>, <<>>, <<>>, 0, "")

OfRes(r) == Outcome(r.raised, r.freq, r.stat, <<>>, r.kernel, 0, "")

\* the first partition that raised
FirstFailed(o) == CHOOSE i \in DOMAIN o :
                      /\ o[i].res.raised # ""
                      /\ \A j \in DOMAIN o : o[j].res.raised # "" => i <= j

\* Parallel Dispatch Engine, step 4 (and step 1 for one worker): the outputs
\* of the partitions one after the other, in the order of their sub-ranges
JoinOutputs(a, o) ==
    IF a.threads <= 1 THEN OfRes(o[1].res)
    ELSE IF \E i \in DOMAIN o : o[i].res.raised # ""
    THEN Outcome("PartitionFailure", <<>>, <<>>, <<>>,
                 Concat([i \in DOMAIN o |-> o[i].res.kernel]),
                 FirstFailed(o), o[FirstFailed(o)].res.raised)
    ELSE Outcome("", Concat([i \in DOMAIN o |-> o[i].res.freq]),
                 Concat([i \in DOMAIN o |-> o[i].res.stat]), <<>>,
                 Concat([i \in DOMAIN o |-> o[i].res.kernel]), 0, "")

-----------------------------------------------------------------------------
(* The calls the model makes.                                              *)

\* a call of estimator e on grid g with the defaults of its keywords
Call(e, g) ==
    [est |-> e, f0 |-> g.f0, fn |-> g.fn, df |-> g.df, threads |-> 1,
     norm |-> "amplitude", weights |-> FALSE, logger |-> TRUE, errors |-> FALSE,
     hasbins |-> FALSE, freqbins |-> <<>>, dnone |-> FALSE,
     kat |-> RNone, kcls |-> "pos", wfreq |-> <<>>]

\* the keywords each estimator reads, varied; kat is the first frequency
Variants(e, g) ==
    CASE e = "scargle" ->
             {[Call(e, g) EXCEPT !.norm = n, !.weights = w[1], !.logger = w[2],
                                 !.kat = g.f0, !.kcls = c] :
                  n \in Norms, c \in KernelClasses,
                  w \in {<<FALSE, TRUE>>, <<TRUE, TRUE>>, <<TRUE, FALSE>>}}
      [] e = "deeming" ->
             {[Call(e, g) EXCEPT !.norm = n, !.kat = g.f0, !.kcls = c] :
                  n \in Norms, c \in KernelClasses}
      [] e \in {"gls", "kepler"} ->
             {[Call(e, g) EXCEPT !.errors = b] : b \in BOOLEAN}
      [] e = "clean" ->
             {Call(e, g), [Call(e, g) EXCEPT !.hasbins = TRUE,
                                             !.freqbins = <<RZero, g.fn>>]}
      [] e = "pdm" ->
             {[Call(e, g) EXCEPT !.dnone = b, !.kat = g.f0, !.kcls = c] :
                  b \in BOOLEAN, c \in {"zero", "pos"}}
      [] OTHER -> {Call(e, g)}

\* the series each estimator is run on: bls reads the time span
SeriesFor(e) ==
    IF e = "bls" THEN SeriesSet
    ELSE {s \in SeriesSet : s.times = <<0, 1>>}

Memory(a, s) ==
    [times   |-> Array(s.times),
     signal  |-> Array(s.signal),
     weights |-> IF a.weights THEN Array(Ones(Len(s.times))) ELSE NoArray,
     errors  |-> IF a.errors THEN Array(Ones(Len(s.times))) ELSE NoArray]

\* the kernel statistic vanishes at one interior frequency of the grid, or nowhere
ParVariants(e, g) ==
    CASE e \in {"scargle", "pdm"} ->
             {Call(e, g)} \cup
             {[Call(e, g) EXCEPT !.kat = RAdd(g.f0, RMul(RInt(j), g.df)),
                                 !.kcls = "zero"] : j \in 0..2}
      [] e = "clean" ->
             {Call(e, g), [Call(e, g) EXCEPT !.hasbins = TRUE,
                                             !.freqbins = <<RZero, g.fn>>]}
      [] OTHER -> {Call(e, g)}

\* sequences of length 0..n over S
SeqsUpTo(S, n) == UNION {[1..k -> S] : k \in 0..n}

\* the frequency loop of pdm_py before its first pass
NoLoop == [i |-> 0, phase |-> <<>>, sel |-> <<>>, Nempty |-> 0, denom |-> 0]

Start(a, m) ==
    /\ args = a
    /\ mem = m
    /\ pc = "start"
    /\ parts = <<>>
    /\ out = <<>>
    /\ result = NoOutcome
    /\ loop = NoLoop

\* one call with threads = 1, or a call of an undecorated function
Init ==
    \/ \E e \in Decorated, g \in Grids :
           \E a \in Variants(e, g), s \in SeriesFor(e) : Start(a, Memory(a, s))
    \/ \E g \in {[f0 |-> R(0, 1), df |-> R(1, 1), fn |-> R(2, 1)]},
          s \in SeriesSet :
           Start(Call("DFTpower", g), Memory(Call("DFTpower", g), s))
    \/ \E t \in SeqsUpTo(0..MaxTime, MaxWinLen), f \in SeqsUpTo(0..3, 2) :
           /\ f # <<>>
           /\ Start([Call("windowfunction", [f0 |-> RNone, df |-> RNone, fn |-> RNone])
                        EXCEPT !.wfreq = f],
                    [times |-> Array(t), signal |-> NoArray,
                     weights |-> NoArray, errors |-> NoArray])

\* one call with threads = k > 1
InitPar ==
    \E e \in Decorated, g \in ValidGrids, k \in ThreadCounts :
        \E a \in ParVariants(e, g), s \in SeriesFor(e) :
            Start([a EXCEPT !.threads = k], Memory(a, s))

-----------------------------------------------------------------------------
(* The steps of a call.                                                    *)

\* defaults_pergram: the grid is resolved and checked before anything runs
Resolve ==
    /\ pc = "start"
    /\ args.est \in Decorated
    /\ IF GridInvalid(args)
       THEN /\ pc' = "done"
            /\ result' = Outcome("InvalidGridError", <<>>, <<>>, <<>>, <<>>, 0, "")
       ELSE /\ pc' = "resolved"
            /\ result' = result
    /\ UNCHANGED <<args, mem, parts, out, loop>>

\* parallel_pergram: the grid is split over the workers
Dispatch ==
    /\ pc = "resolved"
    /\ parts' = Partition(args)
    /\ out' = [i \in DOMAIN Partition(args) |-> Pending]
    /\ pc' = "running"
    /\ UNCHANGED <<args, mem, result, loop>>

\* worker i runs the estimator body on its sub-grid, into its own output
Run(i) ==
    /\ pc = "running"
    /\ ~out[i].done
    /\ LET r == Estimate([args EXCEPT !.f0 = parts[i].f0, !.fn = parts[i].fn], mem)
       IN  /\ out' = [out EXCEPT ![i] = [done |-> TRUE, res |-> r]]
           /\ mem' = ApplyStores(mem, r.stores)
    /\ UNCHANGED <<args, pc, parts, result, loop>>

\* all workers have ended: their outputs are joined
Join ==
    /\ pc = "running"
    /\ \A i \in DOMAIN out : out[i].done
    /\ result' = JoinOutputs(args, out)
    /\ pc' = "done"
    /\ UNCHANGED <<args, mem, parts, out, loop>>

\* a function without decorators runs as called
CallDirect ==
    /\ pc = "start"
    /\ args.est \in Undecorated
    /\ IF args.est = "windowfunction"
       THEN /\ result' = Outcome("", <<>>, <<>>,
                                 windowfunction(mem.times.data, args.wfreq),
                                 <<>>, 0, "")
            /\ mem' = mem
       ELSE /\ result' = OfRes(DFTpower(args, mem))
            /\ mem' = ApplyStores(mem, DFTpower(args, mem).stores)
    /\ pc' = "done"
    /\ UNCHANGED <<args, parts, out, loop>>

Next ==
    \/ Resolve
    \/ Dispatch
    \/ \E i \in DOMAIN out : Run(i)
    \/ Join
    \/ CallDirect

Spec == Init /\ [][Next]_vars

\* the calls with threads = k > 1 are all of decorated estimators
NextPar ==
    \/ Resolve
    \/ Dispatch
    \/ \E i \in DOMAIN out : Run(i)
    \/ Join

SpecPar == InitPar /\ [][NextPar]_vars

-----------------------------------------------------------------------------
(* The frequency loop of pdm_py, one pass at a time.                       *)

\* the most phase bins and covers of a call of pdm_py
MaxBin == 3
MaxCover == 2

\* the drift D, negative values included
DriftSet == {R(-1, 1), R(0, 1), R(1, 2)}

PdmPyGrids ==
    {[f0 |-> f, df |-> d, fn |-> RAdd(f, RMul(r, d))] :
        f \in {R(0, 1), R(3, 2)}, d \in DfSet, r \in {R(1, 1), R(3, 2)}}

\* times in any order, with duplicates, the first not the smallest
PdmPyTimes ==
    {<<1>>, <<0, 1>>, <<2, 0>>, <<1, 1>>, <<1, 1, 3>>, <<0, 2, 1>>, <<2, 1, 0>>,
     <<3, 0, 1, 2>>, <<0, 1, 2, 3>>}

\* a call of pdm_py with its method parameters
PdmPyCall(g, D, Nbin, Ncover) ==
    [est |-> "pdm_py", f0 |-> g.f0, fn |-> g.fn, df |-> g.df, threads |-> 1,
     kat |-> RNone, kcls |-> "pos", D |-> D, Nbin |-> Nbin, Ncover |-> Ncover]

\* one call of pdm_py, in its body, on times in any order
InitPdm ==
    \E g \in PdmPyGrids, D \in DriftSet, Nbin \in 1..MaxBin, Ncover \in 1..MaxCover,
       t \in PdmPyTimes :
        /\ args = PdmPyCall(g, D, Nbin, Ncover)
        /\ mem = [times |-> Array(t), signal |-> Array([j \in DOMAIN t |-> j]),
                  weights |-> NoArray, errors |-> NoArray]
        /\ pc = "loop"
        /\ parts = <<>>
        /\ out = <<>>
        /\ result = NoOutcome
        /\ loop = NoLoop

\* lines 631-668: the pass of the loop for freq[loop.i]
PdmPyPass ==
    /\ pc = "loop"
    /\ loop.i < Len(Arange(args))
    /\ LET time  == mem.times.data
           phase == [j \in DOMAIN time |->
                        Phase(time, Arange(args)[loop.i + 1], args.D, j)]
           sel   == BinData(phase, args.Nbin, args.Ncover)
           empty == CountEmpty(sel, args.Nbin, args.Ncover)
       IN  loop' = [i |-> loop.i + 1, phase |-> phase, sel |-> sel,
                    Nempty |-> empty,
                    denom |-> ThetaDenominator(args.Ncover, Len(time),
                                               args.Nbin, empty)]
    /\ UNCHANGED <<args, mem, pc, parts, out, result>>

\* lines 672-676: after the last pass theta is scaled and returned
PdmPyReturn ==
    /\ pc = "loop"
    /\ loop.i = Len(Arange(args))
    /\ result' = OfRes(pdm_py(args, mem))
    /\ mem' = ApplyStores(mem, pdm_py(args, mem).stores)
    /\ pc' = "done"
    /\ UNCHANGED <<args, parts, out, loop>>

NextPdm ==
    \/ PdmPyPass
    \/ PdmPyReturn

SpecPdm == InitPdm /\ [][NextPdm]_vars

-----------------------------------------------------------------------------
(* The properties checked.                                                 *)

\* a call of a decorated estimator has returned its two arrays
Returned == pc = "done" /\ args.est \in Decorated /\ result.raised = ""

\* what the same call returns with threads = 1
Sequential(a, m) ==
    JoinOutputs([a EXCEPT !.threads = 1],
                <<[done |-> TRUE, res |-> Estimate(a, m)]>>)

\* no frequency is below the one before it
Ascending(f) == \A i \in 1..(Len(f) - 1) : RLe(f[i], f[i + 1])

\* C1: every estimator returns, for every grid with f0 >= 0, fn > f0 and
\* df > 0, a frequency array and a statistic array of the same length
\* floor((fn-f0)/df + 0.001) + 1.
C1_LengthIsGridSamples ==
    Returned =>
        /\ Len(result.freq) = Len(result.stat)
        /\ Len(result.freq) = GridSamples(args)

\* C2: a call with threads = k in {2, 3, 5} returns the frequency and statistic
\* arrays of the same call with threads = 1: the sub-ranges, each computed with
\* the estimator's own sample count, put together give the full grid, nothing
\* twice and nothing missing.
C2_ThreadsGiveSequentialResult ==
    (pc = "done" /\ args.threads > 1) =>
        /\ result.raised = Sequential(args, mem).raised
        /\ result.freq = Sequential(args, mem).freq
        /\ result.stat = Sequential(args, mem).stat

\* C3: with k > 1 workers the assembled frequencies are in ascending order, in
\* whatever order the workers ended.
C3_AssembledAscending ==
    (Returned /\ args.threads > 1) => Ascending(result.freq)

\* C4: the start frequency bls uses is never below 2/T: it is 2/T when the
\* requested f0 is below 2/T, and the requested f0 otherwise.  It is the f0
\* handed to the kernel and the first frequency returned.
C4_BlsStartFrequency ==
    (pc = "done" /\ args.est = "bls" /\ result.kernel # <<>>) =>
        LET twoT == R(2, Ptp(mem.times.data))
            used == result.kernel[1].f0
        IN  /\ RLe(twoT, used)
            /\ RLt(args.f0, twoT) => used = twoT
            /\ RLe(twoT, args.f0) => used = args.f0
            /\ result.freq # <<>> => result.freq[1] = used

\* C4 witness: bls has run its kernel on a requested f0 below 2/T and returned
\* frequencies.
C4_Witness ==
    /\ pc = "done" /\ args.est = "bls" /\ result.kernel # <<>>
    /\ RLt(args.f0, R(2, Ptp(mem.times.data)))
    /\ Len(result.freq) >= 2

\* C5: on a signal of zero variance with norm = 'distribution', scargle and
\* deeming raise DegenerateInputError and return no statistic array (calls that
\* end earlier on the undefined logger aside).
C5_ZeroVarianceRaises ==
    (/\ pc = "done" /\ args.est \in {"scargle", "deeming"}
     /\ args.norm = "distribution" /\ VarZero(mem.signal.data)
     /\ ~GridInvalid(args) /\ result.raised # "NameError") =>
        /\ result.raised = "DegenerateInputError"
        /\ result.stat = <<>>

\* the samples the estimator a.est derives from the grid
DerivedSamples(a) ==
    CASE a.est \in {"scargle", "deeming", "pdm"}            -> SampleCount(a)
      [] a.est \in {"gls", "kepler"}                        -> MaxStep(a)
      [] a.est = "clean"                                    -> CleanCall(a).nf
      [] a.est \in {"schwarzenberg_czerny", "pdm_py"}       -> Len(Arange(a))
      [] OTHER                                              -> RTrunc(BlsNf(a))

\* C6: a grid with fn <= f0, df <= 0 or zero derived samples is rejected with
\* InvalidGridError before any kernel is called, and no array is returned.
C6_InvalidGridRejected ==
    (/\ args.est \in Decorated /\ args.threads = 1
     /\ (GridInvalid(args) \/ DerivedSamples(args) = 0)) =>
        /\ \A i \in DOMAIN out : out[i].res.kernel = <<>>
        /\ pc = "done" => /\ result.raised = "InvalidGridError"
                          /\ result.kernel = <<>>

\* C7: two calls of clean that differ only in f0 hand the same grid and the
\* same frequency bins to the kernel and return the same arrays.
C7_CleanIgnoresF0 ==
    (Returned /\ args.est = "clean" /\ args.threads = 1) =>
        \A f \in F0Set :
            RLt(f, args.fn) =>
                LET other == clean([args EXCEPT !.f0 = f], mem)
                IN  /\ other.kernel = result.kernel
                    /\ other.freq = result.freq
                    /\ other.stat = result.stat

\* C8: windowfunction(times, [0.0]) is [1.0] for every non-empty times.
C8_WindowAtZeroIsOne ==
    (/\ pc = "done" /\ args.est = "windowfunction"
     /\ args.wfreq = <<0>> /\ mem.times.data # <<>>) =>
        result.win = <<R(1, 1)>>

\* C8 witness: the window of unsorted times with a duplicate is returned at
\* frequency 0.
C8_Witness ==
    /\ pc = "done" /\ args.est = "windowfunction"
    /\ args.wfreq = <<0>> /\ mem.times.data = <<2, 0, 2>>
    /\ result.win = <<R(1, 1)>>

C10_FirstStatisticForced ==
    (/\ Returned /\ args.est = "scargle" /\ args.threads = 1
     /\ args.norm = "amplitude"
     /\ KVal(args, args.f0).cls \in {"zero", "neg", "nan"}) =>
        result.stat[1] = Literal("zero")

\* C13: the frequencies bls returns are the grid its statistic was evaluated
\* on: the first is the start frequency the kernel used, each next one is df
\* further, each is the frequency of the statistic at its index, and there are
\* as many as statistic values.
C13_BlsFrequenciesAreTheGrid ==
    (Returned /\ args.est = "bls" /\ args.threads = 1) =>
        LET used == result.kernel[1].f0
        IN  /\ Len(result.freq) = Len(result.stat)
            /\ result.freq = Grid(used, args.df, Len(result.stat))
            /\ \A i \in DOMAIN result.stat :
                   i \in DOMAIN result.freq /\ result.stat[i].at = result.freq[i]

\* C11: in pdm_py the phase of every time point at every trial frequency lies
\* in [0, 1), for times in any order and any drift D.
C11_PhaseInUnitInterval ==
    \A j \in DOMAIN loop.phase :
        RLe(RZero, loop.phase[j]) /\ RLt(loop.phase[j], RInt(1))

\* the points of bin p of the Nbin * Ncover bins, counted cover by cover
PairCount(p) ==
    Cardinality(loop.sel[(p - 1) \div args.Ncover][(p - 1) % args.Ncover])

=============================================================================
